---- MODULE Spec2Model ----
(***************************************************************************)
(* State-machine model of the Deep Dive workspace of DeepSense:            *)
(*   - pages/DeepDive.tsx        (the single-file workspace)               *)
(*   - pages/Deepdive/index.tsx  (the split workspace; Sources, Chat and   *)
(*                                Studio are presentational children)      *)
(* Both files define a React component DeepDive with the same state hooks. *)
(* The variable `workspace` says which of the two components is mounted.   *)
(*                                                                         *)
(* One action models one event handler together with the render and the    *)
(* effects React runs before the next event is handled.                    *)
(***************************************************************************)
EXTENDS Integers, Sequences, FiniteSets, TLC

(***************************************************************************)
(* Bounds of the model.                                                    *)
(***************************************************************************)
\* longest transcript a submit is allowed to build
MaxTurns == 2
\* most chat requests in flight at once
MaxPending == 2
\* width of the progress track in pointer units (rect.width)
TrackWidth == 2

(***************************************************************************)
(* Inputs.                                                                 *)
(***************************************************************************)
\* the two components
Workspaces == {"single", "split"}

\* texts the user types, as sequences of characters
Hi == <<"h", "i">>
Yo == <<"y", "o">>
EmptyText == << >>
InputTexts == {EmptyText, <<" ">>, Hi, <<" ">> \o Yo}

\* the text the chat endpoint returns in data.response for a request: the
\* answers to different texts differ, so that an entry of the transcript
\* shows which request its response answers
ReplyTo(text) == IF text = Hi THEN "r1" ELSE "r2"

\* texts the chat endpoint returns in data.response
Responses(text) == {ReplyTo(text)}

\* collections GET /api/v1/papers returns (a paper is its unique id)
Collections == {<< >>, <<"p1">>, <<"p1", "p2">>, <<"p2", "p1">>}

\* a server that holds one paper
OnePaper == {<<"p1">>}

\* what an answer with a non-success status can carry as its body: JSON that
\* is readable but is no list of papers of the corpus, such as an error
\* report; it is modelled by a list of its one member
ErrorBodies == {<<"detail">>}

\* the same with a collection of three papers
WideCollections == Collections \cup {<<"p3", "p1", "p2">>}

\* the media's true duration in seconds (audio.duration)
RealDurations == {600, 3}

(***************************************************************************)
(* Program constants.                                                      *)
(***************************************************************************)
Fallback == "Sorry, there was an error processing your message."
DefaultDuration == 613

VARIABLES
  workspace,       \* which component is mounted
  papers,          \* useState<Paper[]>([])          sequence of ids
  fetchState,      \* the mount fetch: "pending" | "done" | "failed" |
                   \* "refused" (answered with a non-success status)
  selectedPapers,  \* useState<string[]>([])         sequence of ids
  messages,        \* useState<ChatMessage[]>([])
  inputMessage,    \* useState("")
  pending,         \* chat requests in flight: text -> how many
  wasReset,        \* history: a non-empty transcript has been discarded
  oddToggled,      \* history: ids toggled an odd number of times
  lastEvent,       \* history: the handler that ran last, with its inputs
  isPlaying,           \* useState(false)
  currentTime,         \* useState(0), in seconds times TrackWidth
  duration,            \* useState(613), in seconds
  isDragging,          \* useState(false)
  showCustomizeModal,  \* useState(false)  (pages/Deepdive/index.tsx)
  showAudioPlayer,     \* useState(false)  (pages/Deepdive/index.tsx)
  listener,            \* the render the document listeners were made in
  audioRef,            \* audioRef.current is the <audio> element
  mediaTime,           \* audio.currentTime, in seconds times TrackWidth
  mediaDuration,       \* audio.duration, in seconds; 0 while it is not known,
                       \* SourceFailed once the element gave up on its source
  metadataLoaded,      \* loadedmetadata has fired
  mediaPlaying,        \* the element is playing
  dragWrites,          \* history: writes of audio.currentTime since dragStart
  lastMove,            \* history: time the last pointer move of the drag set
  lastSeek,            \* history: the value last written to audio.currentTime
  audioEvent,          \* history: the playback handler that ran last
  oddPlayToggles,      \* history: play/pause was pressed an odd number of times
  lastCall             \* history: "play" | "pause", the last call on the media

chatVars == <<papers, fetchState, selectedPapers, messages, inputMessage,
              pending, wasReset, oddToggled, lastEvent>>

audioVars == <<isPlaying, currentTime, duration, isDragging,
               showCustomizeModal, showAudioPlayer, listener, audioRef,
               mediaTime, mediaDuration, metadataLoaded, mediaPlaying,
               dragWrites, lastMove, lastSeek, audioEvent, oddPlayToggles,
               lastCall>>

playHistory == <<oddPlayToggles, lastCall>>

(***************************************************************************)
(* Sequence helpers (Array.prototype.includes / filter / map).             *)
(***************************************************************************)
Range(s) == {s[i] : i \in 1..Len(s)}

Includes(s, x) == x \in Range(s)

RECURSIVE FilterOut(_, _)
FilterOut(s, drop) ==
  IF s = << >> THEN << >>
  ELSE IF Head(s) \in drop THEN FilterOut(Tail(s), drop)
       ELSE <<Head(s)>> \o FilterOut(Tail(s), drop)

\* String.prototype.trim on a sequence of characters
RECURSIVE TrimLeft(_)
TrimLeft(s) ==
  IF s = << >> THEN << >>
  ELSE IF Head(s) = " " THEN TrimLeft(Tail(s)) ELSE s

RECURSIVE TrimRight(_)
TrimRight(s) ==
  IF s = << >> THEN << >>
  ELSE IF s[Len(s)] = " " THEN TrimRight(SubSeq(s, 1, Len(s) - 1)) ELSE s

\* mutant: a trim that strips nothing
TrimNothing(s) == s

Trim(s) == TrimRight(TrimLeft(s))

\* texts a request can carry: `!inputMessage.trim()` is false for them
ChatTexts == {t \in InputTexts : Trim(t) # << >>}

RECURSIVE SumOver(_, _)
SumOver(f, S) ==
  IF S = {} THEN 0
  ELSE LET t == CHOOSE x \in S : TRUE IN f[t] + SumOver(f, S \ {t})

\* number of chat requests in flight
PendingCount == SumOver(pending, ChatTexts)

Event(k, t, r, n) == [kind |-> k, text |-> t, response |-> r, dropped |-> n]

(***************************************************************************)
(* Selection Set Manager.                                                  *)
(***************************************************************************)
\* mutant: a toggle that only ever adds
TogglePaperAddOnly(prev, paperId) == Append(prev, paperId)

\* the updater handlePaperSelect passes to setSelectedPapers
TogglePaper(prev, paperId) ==
  IF Includes(prev, paperId) THEN FilterOut(prev, {paperId})
  ELSE Append(prev, paperId)

\* mutant: a select-all that always selects every paper
SelectAllAlways(sel, ps) == ps

\* the value handleSelectAll passes to setSelectedPapers
SelectAllResult(sel, ps) ==
  IF Len(sel) = Len(ps) THEN << >> ELSE ps

\* mutant: the filter of handleDeleteSelected with its test inverted
DeletePapersInverted(prevPapers, sel) ==
  FilterOut(prevPapers, Range(prevPapers) \ Range(sel))

\* the updater handleDeleteSelected passes to setPapers
DeletePapers(prevPapers, sel) == FilterOut(prevPapers, Range(sel))

\* mutant: the component without the effect
ClearChatEffectMissing(ws, msgs) == msgs

\* The effect "Clear chat when selected papers change" with dependency
\* [selectedPapers].  Every selection handler hands React a freshly allocated
\* array, so the dependency differs by Object.is after each of them and the
\* effect runs.  Only pages/DeepDive.tsx declares the effect.
ClearChatEffect(ws, msgs) == IF ws = "single" THEN << >> ELSE msgs

\* mutant: handleDeleteSelected without its setSelectedPapers([])
SelectionAfterDeleteKept(sel) == sel

\* setSelectedPapers([]) at the end of handleDeleteSelected
SelectionAfterDelete(sel) == << >>

\* mutant: a selection change that drops the requests in flight
SelectionChangedCancels(kind) ==
  /\ messages' = ClearChatEffect(workspace, messages)
  /\ wasReset' = (wasReset \/ (messages # << >> /\ messages' = << >>))
  /\ lastEvent' = Event(kind, EmptyText, "", Len(messages) - Len(messages'))
  /\ pending' = [t \in ChatTexts |-> 0]
  /\ UNCHANGED <<workspace, fetchState, inputMessage>>
  /\ UNCHANGED audioVars

\* What a selection handler does to the state outside papers and
\* selectedPapers: the render and then the effects of that render.
SelectionChanged(kind) ==
  /\ messages' = ClearChatEffect(workspace, messages)
  /\ wasReset' = (wasReset \/ (messages # << >> /\ messages' = << >>))
  /\ lastEvent' = Event(kind, EmptyText, "", Len(messages) - Len(messages'))
  /\ UNCHANGED <<workspace, fetchState, inputMessage, pending>>
  /\ UNCHANGED audioVars

\* fetch("/papers").then(res => res.json()).then(data => setPapers(data))
LoadCollection(collections) ==
  /\ fetchState = "pending"
  /\ \E c \in collections : papers' = c
  /\ fetchState' = "done"
  /\ lastEvent' = Event("load", EmptyText, "", 0)
  /\ UNCHANGED <<workspace, selectedPapers, messages, inputMessage, pending,
                 wasReset, oddToggled>>
  /\ UNCHANGED audioVars

LoadPapers == LoadCollection(Collections)

\* .catch(error => console.error(...))
LoadPapersFails ==
  /\ fetchState = "pending"
  /\ fetchState' = "failed"
  /\ lastEvent' = Event("loadFailed", EmptyText, "", 0)
  /\ UNCHANGED <<workspace, papers, selectedPapers, messages, inputMessage,
                 pending, wasReset, oddToggled>>
  /\ UNCHANGED audioVars

\* The server answers with a non-success status and a readable JSON body:
\* fetch resolves, nothing looks at res.ok or res.status, res.json() resolves
\* and setPapers(data) stores the body.
LoadErrorAnswer ==
  /\ fetchState = "pending"
  /\ \E body \in ErrorBodies : papers' = body
  /\ fetchState' = "refused"
  /\ lastEvent' = Event("loadRefused", EmptyText, "", 0)
  /\ UNCHANGED <<workspace, selectedPapers, messages, inputMessage, pending,
                 wasReset, oddToggled>>
  /\ UNCHANGED audioVars

\* a paper's checkbox: onChange={() => handlePaperSelect(paper.id)}; only the
\* loaded papers have a checkbox
PaperSelect(paperId) ==
  /\ paperId \in Range(papers)
  /\ selectedPapers' = TogglePaper(selectedPapers, paperId)
  /\ UNCHANGED papers
  /\ SelectionChanged("toggle")

handlePaperSelect ==
  \E paperId \in Range(papers) : PaperSelect(paperId) /\ UNCHANGED oddToggled

\* the Select All checkbox
handleSelectAll ==
  /\ selectedPapers' = SelectAllResult(selectedPapers, papers)
  /\ UNCHANGED <<papers, oddToggled>>
  /\ SelectionChanged("selectAll")

\* pages/DeepDive.tsx: the delete icon calls handleDeselectAll
handleDeselectAll ==
  /\ workspace = "single"
  /\ selectedPapers' = << >>
  /\ UNCHANGED <<papers, oddToggled>>
  /\ SelectionChanged("deselectAll")

\* pages/Deepdive/index.tsx: the delete icon calls handleDeleteSelected
handleDeleteSelected ==
  /\ workspace = "split"
  /\ UNCHANGED oddToggled
  /\ IF Len(selectedPapers) = 0
     THEN /\ UNCHANGED <<papers, selectedPapers, messages, wasReset>>
          /\ lastEvent' = Event("deleteNothing", EmptyText, "", 0)
          /\ UNCHANGED <<workspace, fetchState, inputMessage, pending>>
          /\ UNCHANGED audioVars
     ELSE /\ papers' = DeletePapers(papers, selectedPapers)
          /\ selectedPapers' = SelectionAfterDelete(selectedPapers)
          /\ SelectionChanged("delete")

(***************************************************************************)
(* Chat Session Controller.                                                *)
(***************************************************************************)
\* setMessages(prev => [...prev, userMessage])
AppendTurn(prev, text) == Append(prev, [message |-> text, response |-> ""])

\* mutant: an updater that finds the pending entry of its own request
UpdateMatching(prev, text, r) ==
  [idx \in 1..Len(prev) |->
     IF prev[idx].message = text /\ prev[idx].response = ""
     THEN [message |-> text, response |-> r]
     ELSE prev[idx]]

\* mutant: an updater that writes the response field only
UpdateResponseOnly(prev, text, r) ==
  [idx \in 1..Len(prev) |->
     IF idx = Len(prev) THEN [message |-> prev[idx].message, response |-> r]
     ELSE prev[idx]]

\* setMessages(prev => prev.map((msg, idx) =>
\*   idx === prev.length - 1 ? {message: inputMessage, response: r} : msg))
\* where inputMessage is the text the handler captured when it was called
UpdateLast(prev, text, r) ==
  [idx \in 1..Len(prev) |->
     IF idx = Len(prev) THEN [message |-> text, response |-> r]
     ELSE prev[idx]]

\* mutant: the success path resolves the first turn
ResolveFirst(prev, text, r) ==
  [idx \in 1..Len(prev) |->
     IF idx = 1 THEN [message |-> text, response |-> r] ELSE prev[idx]]

\* the updater of the success path
ResolveLast(prev, text, r) == UpdateLast(prev, text, r)

\* mutant: a catch block that only logs
FailLastOnlyLogs(prev, text) == prev

\* the updater of the catch block
FailLast(prev, text) == UpdateLast(prev, text, Fallback)

\* onChange={(e) => setInputMessage(e.target.value)}
onInputChange ==
  /\ \E t \in InputTexts : t # inputMessage /\ inputMessage' = t
  /\ lastEvent' = Event("input", EmptyText, "", 0)
  /\ UNCHANGED <<workspace, papers, fetchState, selectedPapers, messages,
                 pending, wasReset, oddToggled>>
  /\ UNCHANGED audioVars

\* mutant: a submit that sends its request twice
IssueRequestTwice(inFlight, text) == [inFlight EXCEPT ![text] = @ + 2]

\* the single `await fetch(".../chat", ...)` of handleSendMessage
IssueRequest(inFlight, text) == [inFlight EXCEPT ![text] = @ + 1]

\* handleSendMessage up to its first await: the early return, the optimistic
\* append, the cleared input and the fetch call
handleSendMessage ==
  /\ UNCHANGED audioVars
  /\ IF Trim(inputMessage) = << >>
     THEN /\ lastEvent' = Event("submitBlank", inputMessage, "", 0)
          /\ UNCHANGED <<workspace, papers, fetchState, selectedPapers,
                         messages, inputMessage, pending, wasReset,
                         oddToggled>>
     ELSE /\ Len(messages) < MaxTurns
          /\ PendingCount < MaxPending
          /\ messages' = AppendTurn(messages, inputMessage)
          /\ inputMessage' = EmptyText
          /\ pending' = IssueRequest(pending, inputMessage)
          /\ lastEvent' = Event("submit", inputMessage, "", 0)
          /\ UNCHANGED <<workspace, papers, fetchState, selectedPapers,
                         wasReset, oddToggled>>

\* the continuation after `await response.json()` of the request sent with text
ChatResponse ==
  \E text \in ChatTexts : \E r \in Responses(text) :
    /\ pending[text] > 0
    /\ pending' = [pending EXCEPT ![text] = @ - 1]
    /\ messages' = ResolveLast(messages, text, r)
    /\ lastEvent' = Event("success", text, r, 0)
    /\ UNCHANGED <<workspace, papers, fetchState, selectedPapers,
                   inputMessage, wasReset, oddToggled>>
    /\ UNCHANGED audioVars

\* the catch block: fetch rejected, !response.ok, or response.json() rejected
ChatFailure ==
  \E text \in ChatTexts :
    /\ pending[text] > 0
    /\ pending' = [pending EXCEPT ![text] = @ - 1]
    /\ messages' = FailLast(messages, text)
    /\ lastEvent' = Event("failure", text, Fallback, 0)
    /\ UNCHANGED <<workspace, papers, fetchState, selectedPapers,
                   inputMessage, wasReset, oddToggled>>
    /\ UNCHANGED audioVars

(***************************************************************************)
(* Audio Playback Controller.  Times are kept in seconds times TrackWidth,  *)
(* so that (pointerX / rect.width) * duration is the integer               *)
(* pointerX * duration.                                                    *)
(***************************************************************************)
\* no pointer move, no write yet
NoMove == 0 - 1

Min(a, b) == IF a < b THEN a ELSE b

Max(a, b) == IF a > b THEN a ELSE b

\* e.clientX - rect.left of a click on the track; the 16px progress dot at
\* left: 100% reaches beyond the right edge of the track
ClickXs == 0..(TrackWidth + 1)

\* e.clientX - rect.left of a mousemove anywhere in the document
MoveXs == (0 - 1)..(TrackWidth + 1)

AudioEvent(k, x) == [kind |-> k, x |-> x]

\* the state a render closes its handlers over
Render(dragging, time, dur) ==
  [isDragging |-> dragging, currentTime |-> time, duration |-> dur]

\* progressRef.current: the single-file component puts the ref on the track,
\* the split component never hands it to Studio; React sets and clears it in
\* the same commit as audioRef.current
ProgressRefAttached == workspace = "single" /\ audioRef

\* the track and the play button are on screen
PlayerVisible == workspace = "single" \/ showAudioPlayer

\* the end of the media, in seconds times TrackWidth
MediaEnd == mediaDuration * TrackWidth

\* the element keeps an assigned position within the media; until the
\* metadata has loaded it does not know where the media ends
MediaSeek(v) == IF metadataLoaded THEN Max(0, Min(v, MediaEnd)) ELSE Max(0, v)

\* handleProgressClick: percentage = x / rect.width; percentage * duration
ClickTime(x, dur) == x * dur

\* handleDrag: x = Math.max(0, Math.min(clientX - rect.left, rect.width))
DragTime(x, dur) == Max(0, Min(x, TrackWidth)) * dur

\* handleDragEnd: percentage = currentTime / duration; percentage * duration
\* (exact arithmetic; duration is positive)
DragEndTime(time, dur) == (time * dur) \div dur

\* The effect with dependency [isDragging] puts handleMouseUp and
\* handleMouseMove on the document; they call the handleDragEnd and handleDrag
\* of the render the effect ran in, until isDragging changes again.
ListenerAfter(dragging, time, dur) ==
  IF workspace = "single" /\ dragging # isDragging
  THEN Render(dragging, time, dur)
  ELSE listener

CountWrite(n) == Min(n + 1, 2)

\* mutant: a toggle that calls play() whatever the state
MediaCallAlwaysPlay(playing) == "play"

\* handlePlayPause: `if (isPlaying) pause() else play()`
MediaCall(playing) == IF playing THEN "pause" ELSE "play"

\* audio.duration of an element whose source could not be loaded
SourceFailed == 0 - 1

\* what play() can lead to: the element starts, or, while nothing of the
\* media has loaded yet, the source turns out to be unavailable and the
\* element stays paused (the promise play() returns is dropped)
PlayOutcomes ==
  IF mediaDuration = SourceFailed THEN {FALSE}
  ELSE IF metadataLoaded THEN {TRUE} ELSE BOOLEAN

\* play() on an element that has ended starts again from the beginning
PlayFrom(time) == IF metadataLoaded /\ time >= MediaEnd THEN 0 ELSE time

\* handlePlayPause
handlePlayPause ==
  /\ PlayerVisible
  /\ IF audioRef
     THEN /\ lastCall' = MediaCall(isPlaying)
          /\ IF lastCall' = "play"
             THEN /\ \E started \in PlayOutcomes :
                       /\ mediaPlaying' = started
                       /\ mediaDuration' =
                            IF started THEN mediaDuration ELSE SourceFailed
                  /\ mediaTime' = PlayFrom(mediaTime)
             ELSE /\ mediaPlaying' = FALSE
                  /\ UNCHANGED <<mediaTime, mediaDuration>>
          /\ isPlaying' = ~isPlaying
     ELSE UNCHANGED <<lastCall, mediaPlaying, mediaTime, mediaDuration,
                      isPlaying>>
  /\ oddPlayToggles' = ~oddPlayToggles
  /\ audioEvent' = AudioEvent("playPause", 0)
  /\ UNCHANGED <<currentTime, duration, isDragging, showCustomizeModal,
                 showAudioPlayer, listener, audioRef, metadataLoaded,
                 dragWrites, lastMove, lastSeek>>
  /\ UNCHANGED <<workspace, chatVars>>

\* a click reaches the handler from the track itself, or from the progress
\* dot (left: currentTime / duration, 16px wide), which lies beyond the right
\* edge of the track once the position is at the end
ClickLands(x) == x <= TrackWidth \/ currentTime >= TrackWidth * duration

\* mutant: a click that seeks during a drag as well
ClickSeeksWhileDragging(track, dragging) == track

\* handleProgressClick: `if (progressRef.current && !isDragging)`
ClickSeeks(track, dragging) == track /\ ~dragging

\* onClick of the track
handleProgressClick ==
  \E x \in ClickXs :
    /\ PlayerVisible
    /\ ClickLands(x)
    /\ IF ClickSeeks(ProgressRefAttached, isDragging)
       THEN /\ currentTime' = ClickTime(x, duration)
            /\ IF audioRef
               THEN /\ mediaTime' = MediaSeek(ClickTime(x, duration))
                    /\ lastSeek' = ClickTime(x, duration)
                    /\ dragWrites' = CountWrite(dragWrites)
               ELSE UNCHANGED <<mediaTime, lastSeek, dragWrites>>
       ELSE UNCHANGED <<currentTime, mediaTime, lastSeek, dragWrites>>
    /\ audioEvent' = AudioEvent("click", x)
    /\ UNCHANGED <<isPlaying, duration, isDragging, showCustomizeModal,
                   showAudioPlayer, listener, audioRef, mediaDuration,
                   metadataLoaded, mediaPlaying, lastMove>>
    /\ UNCHANGED <<workspace, chatVars, playHistory>>

\* onMouseDown of the track
handleDragStart ==
  /\ PlayerVisible
  /\ isDragging' = TRUE
  /\ listener' = ListenerAfter(TRUE, currentTime, duration)
  /\ IF isDragging
     THEN UNCHANGED <<dragWrites, lastMove>>
     ELSE dragWrites' = 0 /\ lastMove' = NoMove
  /\ audioEvent' = AudioEvent("dragStart", 0)
  /\ UNCHANGED <<isPlaying, currentTime, duration, showCustomizeModal,
                 showAudioPlayer, audioRef, mediaTime, mediaDuration,
                 metadataLoaded, mediaPlaying, lastSeek>>
  /\ UNCHANGED <<workspace, chatVars, playHistory>>

\* mousemove on the document: handleMouseMove, then the handleDrag it closed
\* over (pages/DeepDive.tsx only)
handleDrag ==
  \E x \in MoveXs :
    /\ workspace = "single"
    /\ IF listener.isDragging /\ ProgressRefAttached
       THEN /\ currentTime' = DragTime(x, listener.duration)
            /\ lastMove' = DragTime(x, listener.duration)
       ELSE UNCHANGED <<currentTime, lastMove>>
    /\ audioEvent' = AudioEvent("move", x)
    /\ UNCHANGED <<isPlaying, duration, isDragging, showCustomizeModal,
                   showAudioPlayer, listener, audioRef, mediaTime,
                   mediaDuration, metadataLoaded, mediaPlaying, dragWrites,
                   lastSeek>>
    /\ UNCHANGED <<workspace, chatVars, playHistory>>

\* mutant: a handleDragEnd that does not look at audioRef.current
DragEndIgnoresMedia(dragging, media) == dragging

\* handleDragEnd: `if (isDragging && audioRef.current)`
DragEndRuns(dragging, media) == dragging /\ media

\* mouseup on the document: handleMouseUp, then the handleDragEnd it closed
\* over; pages/Deepdive/index.tsx has neither and listens to no mouseup
handleDragEnd ==
  /\ PlayerVisible
  /\ IF workspace = "single" /\ DragEndRuns(listener.isDragging, audioRef)
     THEN /\ mediaTime' =
               MediaSeek(DragEndTime(listener.currentTime, listener.duration))
          /\ lastSeek' = DragEndTime(listener.currentTime, listener.duration)
          /\ dragWrites' = CountWrite(dragWrites)
          /\ isDragging' = FALSE
          /\ listener' = ListenerAfter(FALSE, currentTime, duration)
     ELSE UNCHANGED <<mediaTime, lastSeek, dragWrites, isDragging, listener>>
  /\ audioEvent' = AudioEvent("dragEnd", 0)
  /\ UNCHANGED <<isPlaying, currentTime, duration, showCustomizeModal,
                 showAudioPlayer, audioRef, mediaDuration, metadataLoaded,
                 mediaPlaying, lastMove>>
  /\ UNCHANGED <<workspace, chatVars, playHistory>>

\* mutant: a tick that copies the reported position even during a drag
TickAlwaysCopies(dragging, time, reported) == reported

\* onTimeUpdate: `if (... && !isDragging) setCurrentTime(audio.currentTime)`
TickTime(dragging, time, reported) == IF ~dragging THEN reported ELSE time

\* timeupdate of the element: playback has moved on by the time of one
\* pointer unit of the track, or the position was assigned; then onTimeUpdate
onTimeUpdate ==
  /\ mediaTime' = IF mediaPlaying /\ metadataLoaded
                  THEN Min(mediaTime + mediaDuration, MediaEnd)
                  ELSE mediaTime
  /\ mediaPlaying' = (mediaPlaying /\ (metadataLoaded => mediaTime' < MediaEnd))
  /\ IF audioRef
     THEN currentTime' = TickTime(isDragging, currentTime, mediaTime')
     ELSE UNCHANGED currentTime
  /\ audioEvent' = AudioEvent("timeUpdate", 0)
  /\ UNCHANGED <<isPlaying, duration, isDragging, showCustomizeModal,
                 showAudioPlayer, listener, audioRef, mediaDuration,
                 metadataLoaded, dragWrites, lastMove, lastSeek>>
  /\ UNCHANGED <<workspace, chatVars, playHistory>>

\* loadedmetadata of the element: the duration of the media is known and an
\* assigned position beyond the end falls back to the end; then
\* onLoadedMetadata
onLoadedMetadata ==
  /\ ~metadataLoaded
  /\ mediaDuration # SourceFailed
  /\ metadataLoaded' = TRUE
  /\ \E d \in RealDurations :
       /\ mediaDuration' = d
       /\ mediaTime' = Min(mediaTime, d * TrackWidth)
       /\ IF audioRef THEN duration' = d ELSE UNCHANGED duration
  /\ audioEvent' = AudioEvent("loadedMetadata", 0)
  /\ UNCHANGED <<isPlaying, currentTime, isDragging, showCustomizeModal,
                 showAudioPlayer, listener, audioRef, mediaPlaying,
                 dragWrites, lastMove, lastSeek>>
  /\ UNCHANGED <<workspace, chatVars, playHistory>>

\* the display switch of pages/Deepdive/index.tsx
DisplaySwitch(kind, modal, player) ==
  /\ workspace = "split"
  /\ showCustomizeModal' = modal
  /\ showAudioPlayer' = player
  /\ audioEvent' = AudioEvent(kind, 0)
  /\ UNCHANGED <<isPlaying, currentTime, duration, isDragging, listener,
                 audioRef, mediaTime, mediaDuration, metadataLoaded,
                 mediaPlaying, dragWrites, lastMove, lastSeek>>
  /\ UNCHANGED <<workspace, chatVars, playHistory>>

\* the Customize button, shown in place of the player
handleCustomize ==
  /\ ~showAudioPlayer
  /\ DisplaySwitch("customize", TRUE, FALSE)

\* the overlay and the close button of the modal
handleCloseModal ==
  /\ showCustomizeModal
  /\ DisplaySwitch("closeModal", FALSE, TRUE)

\* the Generate button, shown in place of the player
handleGenerate ==
  /\ ~showAudioPlayer
  /\ DisplaySwitch("generate", showCustomizeModal, TRUE)

\* The component is removed: React clears the refs in the commit that takes
\* the elements out of the document, which pauses the media; the handlers of
\* the last render, the document listeners among them, are closures that can
\* still be called until the cleanup of the effect has run.
Unmount ==
  /\ audioRef
  /\ audioRef' = FALSE
  /\ mediaPlaying' = FALSE
  /\ audioEvent' = AudioEvent("unmount", 0)
  /\ UNCHANGED <<isPlaying, currentTime, duration, isDragging,
                 showCustomizeModal, showAudioPlayer, listener, mediaTime,
                 mediaDuration, metadataLoaded, dragWrites, lastMove,
                 lastSeek>>
  /\ UNCHANGED <<workspace, chatVars, playHistory>>

NextAudio ==
  \/ handlePlayPause
  \/ handleProgressClick
  \/ handleDragStart
  \/ handleDrag
  \/ handleDragEnd
  \/ onTimeUpdate
  \/ onLoadedMetadata
  \/ handleCustomize
  \/ handleCloseModal
  \/ handleGenerate

(***************************************************************************)
(* Specification of the selection set and the chat session.                *)
(***************************************************************************)
Init ==
  /\ workspace \in Workspaces
  /\ papers = << >>
  /\ fetchState = "pending"
  /\ selectedPapers = << >>
  /\ messages = << >>
  /\ inputMessage = EmptyText
  /\ pending = [t \in ChatTexts |-> 0]
  /\ wasReset = FALSE
  /\ oddToggled = {}
  /\ lastEvent = Event("mount", EmptyText, "", 0)
  /\ isPlaying = FALSE
  /\ currentTime = 0
  /\ duration = DefaultDuration
  /\ isDragging = FALSE
  /\ showCustomizeModal = FALSE
  /\ showAudioPlayer = FALSE
  /\ listener = Render(FALSE, 0, DefaultDuration)
  /\ audioRef = TRUE
  /\ mediaTime = 0
  /\ mediaDuration = 0
  /\ metadataLoaded = FALSE
  /\ mediaPlaying = FALSE
  /\ dragWrites = 0
  /\ lastMove = NoMove
  /\ lastSeek = NoMove
  /\ audioEvent = AudioEvent("mount", 0)
  /\ oddPlayToggles = FALSE
  /\ lastCall = "none"

Next ==
  \/ LoadPapers
  \/ LoadPapersFails
  \/ handlePaperSelect
  \/ handleSelectAll
  \/ handleDeselectAll
  \/ handleDeleteSelected
  \/ onInputChange
  \/ handleSendMessage
  \/ ChatResponse
  \/ ChatFailure

vars == <<workspace, chatVars, audioVars>>

Spec == Init /\ [][Next]_vars

(***************************************************************************)
(* Specification of the playback controller and the display switch.        *)
(***************************************************************************)
SpecAudio == Init /\ [][NextAudio]_vars

(***************************************************************************)
(* Specification in which the selection changes by toggles only; it keeps  *)
(* the history of the ids toggled an odd number of times.                  *)
(***************************************************************************)
CountedPaperSelect ==
  \E paperId \in Range(papers) :
    /\ PaperSelect(paperId)
    /\ oddToggled' = IF paperId \in oddToggled THEN oddToggled \ {paperId}
                     ELSE oddToggled \cup {paperId}

NextToggle ==
  \/ LoadPapers
  \/ LoadPapersFails
  \/ CountedPaperSelect
  \/ onInputChange
  \/ handleSendMessage
  \/ ChatResponse
  \/ ChatFailure

SpecToggle == Init /\ [][NextToggle]_vars

(***************************************************************************)
(* Specification of the play, seek and drag handlers with the removal of   *)
(* the component, after which the media element is absent.                 *)
(***************************************************************************)
NextUnmount ==
  \/ handlePlayPause
  \/ handleProgressClick
  \/ handleDragStart
  \/ handleDrag
  \/ handleDragEnd
  \/ handleGenerate
  \/ Unmount

SpecUnmount == Init /\ [][NextUnmount]_vars

(***************************************************************************)
(* Specification of the selection set alone, with a collection of three    *)
(* papers among those the server returns.                                  *)
(***************************************************************************)
LoadPapersWide == LoadCollection(WideCollections)

NextSelection ==
  \/ LoadPapersWide
  \/ LoadPapersFails
  \/ handlePaperSelect
  \/ handleSelectAll
  \/ handleDeselectAll
  \/ handleDeleteSelected

SpecSelection == Init /\ [][NextSelection]_vars

(***************************************************************************)
(* Specification of the selection set with every outcome of the mount      *)
(* fetch: a list of papers, an error answer, a rejected promise.           *)
(***************************************************************************)
NextFetch ==
  \/ LoadPapersWide
  \/ LoadErrorAnswer
  \/ LoadPapersFails
  \/ handlePaperSelect
  \/ handleSelectAll
  \/ handleDeselectAll
  \/ handleDeleteSelected

SpecFetch == Init /\ [][NextFetch]_vars

(***************************************************************************)
(* Specification of the chat session beside a collection of one paper:     *)
(* every selection handler and every chat step, with few selection states. *)
(***************************************************************************)
LoadOnePaper == LoadCollection(OnePaper)

NextChat ==
  \/ LoadOnePaper
  \/ LoadPapersFails
  \/ handlePaperSelect
  \/ handleSelectAll
  \/ handleDeselectAll
  \/ handleDeleteSelected
  \/ onInputChange
  \/ handleSendMessage
  \/ ChatResponse
  \/ ChatFailure

SpecChat == Init /\ [][NextChat]_vars

(***************************************************************************)
(* Properties of the selection set and the chat session.                   *)
(***************************************************************************)
SelectionKinds == {"toggle", "selectAll", "deselectAll", "delete"}

ResponseKinds == {"success", "failure"}

Last(s) == s[Len(s)]

\* the step handled the outcome of a chat request
IsOutcomeStep == PendingCount' < PendingCount

\* C1: right after a successful response is handled, the last entry of a
\* non-empty transcript carries the text the server returned.
C1_SuccessResolvesLast ==
  (lastEvent.kind = "success" /\ messages # << >>)
    => Last(messages).response = lastEvent.response

C1_Witness ==
  /\ lastEvent.kind = "success"
  /\ Len(messages) = 2
  /\ Last(messages).response = "r1"

\* C2: a failed request writes the fallback string into the last entry and
\* changes nothing else; "hi" submitted alone and failed leaves the one entry
\* {message: "hi", response: fallback}.
C2_FailureWritesFallback ==
  [][(IsOutcomeStep /\ lastEvent'.kind = "failure") =>
       /\ Len(messages') = Len(messages)
       /\ messages # << >> =>
            Last(messages').response
              = "Sorry, there was an error processing your message."
       /\ \A i \in 1..(Len(messages) - 1) : messages'[i] = messages[i]
       /\ UNCHANGED <<workspace, papers, fetchState, selectedPapers,
                      inputMessage>>
       /\ (messages = <<[message |-> Hi, response |-> ""]>>
           /\ lastEvent'.text = Hi)
            => messages' = <<[message |-> Hi, response |->
                 "Sorry, there was an error processing your message."]>>
    ]_vars

C2_Witness ==
  /\ lastEvent.kind = "failure"
  /\ lastEvent.text = Hi
  /\ messages = <<[message |-> Hi, response |-> Fallback]>>

\* C3: once every issued request has succeeded or failed, and the transcript
\* was never reset, every turn of the transcript has a non-empty response,
\* however many submissions were outstanding together.
C3_EveryTurnResolved ==
  (PendingCount = 0 /\ ~wasReset)
    => \A i \in 1..Len(messages) : messages[i].response # ""

\* C4: in pages/DeepDive.tsx a toggle, a select-all and a deselect-all each
\* leave the transcript empty.
C4_SelectionClearsChat ==
  (workspace = "single"
   /\ lastEvent.kind \in {"toggle", "selectAll", "deselectAll"})
    => messages = << >>

C4_Witness ==
  /\ workspace = "single"
  /\ lastEvent.kind = "toggle"
  /\ lastEvent.dropped = 2

\* C5: in pages/Deepdive/index.tsx a toggle, a select-all and a
\* delete-selected each leave the transcript empty.
C5_SplitSelectionClearsChat ==
  (workspace = "split" /\ lastEvent.kind \in {"toggle", "selectAll", "delete"})
    => messages = << >>

\* C6: a selection change leaves the requests in flight as they are, and an
\* outcome that arrives later is written into the last entry the transcript
\* has at that moment; an empty transcript stays empty.
C6_ResetDoesNotCancel ==
  [][/\ lastEvent'.kind \in SelectionKinds => pending' = pending
     /\ IsOutcomeStep =>
          /\ lastEvent'.kind \in ResponseKinds
          /\ Len(messages') = Len(messages)
          /\ messages # << >> =>
               Last(messages').response = lastEvent'.response
          /\ \A i \in 1..(Len(messages) - 1) : messages'[i] = messages[i]
    ]_vars

\* a request sent before the reset resolved the turn submitted after it
C6_Witness ==
  /\ workspace = "single"
  /\ wasReset
  /\ lastEvent.kind = "success"
  /\ lastEvent.text = Hi
  /\ Len(messages) = 1
  /\ Last(messages).response = lastEvent.response
  /\ PendingCount = 1
  /\ pending[Hi] = 0

\* C9: every selected identifier is the identifier of a loaded paper.
C9_SelectionWithinPapers == Range(selectedPapers) \subseteq Range(papers)

\* the selection made after a delete-selected shortened the collection
C9_Witness ==
  /\ workspace = "split"
  /\ papers = <<"p2">>
  /\ selectedPapers = <<"p2">>

\* C10: when the selection changes by toggles only, it holds exactly the
\* identifiers toggled an odd number of times.
C10_SelectionIsOddToggled == Range(selectedPapers) = oddToggled

\* the last handler was a toggle and it emptied the selection again: some
\* identifier has been toggled an even number of times
C10_Witness ==
  /\ papers = <<"p1", "p2">>
  /\ lastEvent.kind = "toggle"
  /\ selectedPapers = << >>
  /\ oddToggled = {}

\* position of an identifier in a sequence without repetitions
Pos(s, x) == CHOOSE i \in 1..Len(s) : s[i] = x

\* C11: select-all empties the selection when as many identifiers are selected
\* as papers are loaded, and otherwise selects the identifiers of all loaded
\* papers; with p1 and p2 both toggled on, it gives the empty selection.
C11_SelectAllToggles ==
  [][lastEvent'.kind = "selectAll" =>
       /\ Len(selectedPapers) = Len(papers) => selectedPapers' = << >>
       /\ Len(selectedPapers) # Len(papers) =>
            /\ Len(selectedPapers') = Len(papers)
            /\ \A i \in 1..Len(papers) : selectedPapers'[i] = papers[i]
       /\ UNCHANGED papers
    ]_vars

\* select-all pressed with both papers selected
C11_Witness ==
  /\ lastEvent.kind = "selectAll"
  /\ papers = <<"p1", "p2">>
  /\ selectedPapers = << >>

\* C12: delete-selected with a non-empty selection removes exactly the selected
\* papers, keeps the others in their order and empties the selection in the
\* same step; no selected identifier is ever the identifier of a removed paper.
C12_DeleteRemovesSelected ==
  [][lastEvent'.kind = "delete" =>
       /\ selectedPapers # << >>
       /\ selectedPapers' = << >>
       /\ Range(papers') = Range(papers) \ Range(selectedPapers)
       /\ Len(papers') = Cardinality(Range(papers'))
       /\ \A i, j \in 1..Len(papers') :
            i < j => Pos(papers, papers'[i]) < Pos(papers, papers'[j])
       /\ Range(selectedPapers') \subseteq Range(papers')
    ]_vars

\* the middle paper of three was deleted, the other two kept their order
C12_Witness ==
  /\ lastEvent.kind = "delete"
  /\ papers = <<"p3", "p2">>
  /\ selectedPapers = << >>

\* a text of white space only, the empty text included
IsBlank(s) == \A i \in 1..Len(s) : s[i] = " "

\* C13: a submit with an empty or all-blank input buffer appends nothing,
\* leaves the input buffer as it is and issues no request.
C13_BlankSubmitIsNoOp ==
  [][(lastEvent'.kind \in {"submit", "submitBlank"} /\ IsBlank(inputMessage))
       => UNCHANGED <<messages, inputMessage, pending, papers,
                      selectedPapers, fetchState>>
    ]_vars

\* a submit was pressed on a buffer holding one blank, after a first turn
C13_Witness ==
  /\ lastEvent.kind = "submitBlank"
  /\ inputMessage = <<" ">>
  /\ Len(messages) = 1

\* C14: after a non-blank submit has appended {text, ""} and issued the
\* request carrying that text, the pending entry {text, ""} is in the
\* transcript in every state in which the request is outstanding, as long as
\* no reset happened.
C14_PendingEntryWhileOutstanding ==
  ~wasReset =>
    \A t \in ChatTexts :
      pending[t] > 0 =>
        \E i \in 1..Len(messages) :
          messages[i] = [message |-> t, response |-> ""]

\* C15: requests are issued by non-blank submits only, one per submit: a
\* submit adds exactly one outstanding request, an outcome (success or
\* failure) removes exactly one and issues none, and a selection change, an
\* edit of the input or a blank submit leaves the outstanding requests alone.
C15_OneRequestPerSubmit ==
  [][/\ lastEvent'.kind = "submit" =>
          /\ ~IsBlank(inputMessage)
          /\ pending'[inputMessage] = pending[inputMessage] + 1
          /\ \A t \in ChatTexts \ {inputMessage} : pending'[t] = pending[t]
     /\ lastEvent'.kind \in ResponseKinds =>
          /\ pending'[lastEvent'.text] = pending[lastEvent'.text] - 1
          /\ \A t \in ChatTexts \ {lastEvent'.text} : pending'[t] = pending[t]
     /\ lastEvent'.kind \notin ({"submit"} \cup ResponseKinds) =>
          UNCHANGED pending
    ]_vars

\* two requests were issued, the first failed and the second is outstanding
C15_Witness ==
  /\ lastEvent.kind = "failure"
  /\ Len(messages) = 2
  /\ PendingCount = 1

\* C24: the outcome of a request, success or failure, keeps the length of
\* the transcript, changes no entry but the last and writes its response
\* there; with a second submit made before the first request completes, the
\* first outcome lands in the second entry and the first entry stays pending.
C24_OutcomeWritesLastOnly ==
  [][(IsOutcomeStep /\ lastEvent'.kind \in ResponseKinds) =>
       /\ Len(messages') = Len(messages)
       /\ \A i \in 1..(Len(messages) - 1) : messages'[i] = messages[i]
       /\ messages # << >> =>
            Last(messages').response = lastEvent'.response
       /\ (Len(messages) = 2 /\ messages[1].response = ""
           /\ messages[2].response = "" /\ lastEvent'.text = messages[1].message)
            => (messages'[1].response = "" /\ messages'[2].response # "")
    ]_vars

\* "hi" then " yo" submitted, the request of "hi" succeeded first
C24_Witness ==
  /\ lastEvent.kind = "success"
  /\ lastEvent.text = Hi
  /\ pending[<<" ">> \o Yo] = 1
  /\ Len(messages) = 2
  /\ messages[1] = [message |-> Hi, response |-> ""]
  /\ messages[2].response = "r1"

\* C25: a submit or an outcome removes no entry and leaves the message text
\* at every position of the transcript as it was appended.
C25_MessageTextNeverChanges ==
  [][lastEvent'.kind \in ({"submit"} \cup ResponseKinds) =>
       /\ Len(messages') >= Len(messages)
       /\ \A i \in 1..Len(messages) :
            messages'[i].message = messages[i].message
    ]_vars

\* C29: in every reachable state the response of an entry, when it is not
\* empty, is the fallback string or the answer of the server to the request
\* that carried the message of the same entry.
C29_ResponseAnswersMessage ==
  \A i \in 1..Len(messages) :
    messages[i].response # "" =>
      \/ messages[i].response = Fallback
      \/ messages[i].response = ReplyTo(messages[i].message)

\* "hi" then " yo" submitted together, both answered, "hi" first
C29_Witness ==
  /\ lastEvent.kind = "success"
  /\ PendingCount = 0
  /\ ~wasReset
  /\ Len(messages) = 2
  /\ messages[1] = [message |-> Hi, response |-> ""]
  /\ messages[2] = [message |-> <<" ">> \o Yo, response |-> "r2"]

(***************************************************************************)
(* Properties of the playback controller.                                  *)
(***************************************************************************)
\* the time clamp(pointerX / trackWidth, 0, 1) * duration
ClampedTime(x, dur) ==
  IF x < 0 THEN 0 ELSE IF x > TrackWidth THEN TrackWidth * dur ELSE x * dur

\* C7: in pages/DeepDive.tsx a pointer move during a drag sets currentTime to
\* clamp(pointerX / trackWidth, 0, 1) * duration and does not write the media
\* position; the media position is not written while dragging and is written
\* exactly once, by dragEnd, when the drag ends.
C7_DragWritesMediaOnce ==
  [][workspace = "single" =>
       /\ (isDragging /\ audioEvent'.kind = "move") =>
            /\ currentTime' = ClampedTime(audioEvent'.x, duration)
            /\ UNCHANGED <<mediaTime, lastSeek, dragWrites>>
       /\ isDragging' => dragWrites' = 0
       /\ (isDragging /\ ~isDragging') =>
            (audioEvent'.kind = "dragEnd" /\ dragWrites' = 1)
    ]_vars

\* C8: when a drag ends, the media position is set to the time the last
\* pointer move of the drag computed.
C8_DragEndCommitsLastMove ==
  (workspace = "single" /\ audioEvent.kind = "dragEnd" /\ ~isDragging
   /\ dragWrites = 1 /\ lastMove # NoMove)
    => lastSeek = lastMove

\* C16: in every reachable state 0 <= currentTime <= duration (time is in
\* seconds times TrackWidth), whatever clicks, drags, playback ticks and
\* metadata load came before.
C16_TimeWithinDuration ==
  /\ 0 <= currentTime
  /\ currentTime <= duration * TrackWidth

\* C17: a click on the track while not dragging sets currentTime, and the
\* position written to the media, to clamp(pointerX / trackWidth, 0, 1) times
\* duration.
C17_ClickSeeksClamped ==
  [][(audioEvent'.kind = "click" /\ ~isDragging) =>
       /\ currentTime' = ClampedTime(audioEvent'.x, duration)
       /\ lastSeek' = ClampedTime(audioEvent'.x, duration)
    ]_vars

\* C18: a playback tick copies the position the media reports into
\* currentTime when the controller is not dragging, leaves currentTime
\* unchanged while it is dragging, and never writes the media position.
C18_TickCopiesUnlessDragging ==
  [][audioEvent'.kind = "timeUpdate" =>
       /\ ~isDragging => currentTime' = mediaTime'
       /\ isDragging => currentTime' = currentTime
       /\ UNCHANGED <<lastSeek, dragWrites, isDragging, duration>>
    ]_vars

\* a tick arrived during a drag while the media had played on
C18_Witness ==
  /\ audioEvent.kind = "timeUpdate"
  /\ isDragging
  /\ mediaTime > 0
  /\ currentTime # mediaTime

\* C19: in pages/DeepDive.tsx a pointer release while dragging writes the
\* current position to the media and ends the drag; a pointer release while
\* not dragging changes nothing.
C19_DragEndForwardsAndReleases ==
  [][(workspace = "single" /\ audioEvent'.kind = "dragEnd") =>
       /\ isDragging =>
            /\ lastSeek' = currentTime
            /\ ~isDragging'
       /\ ~isDragging =>
            UNCHANGED <<currentTime, duration, isDragging, isPlaying,
                        mediaTime, lastSeek, dragWrites>>
    ]_vars

\* C20: in pages/Deepdive/index.tsx isDragging is true only while a drag is
\* in progress: after a press on the track and the pointer release that
\* follows it, isDragging is false again.
C20_SplitReleaseEndsDrag ==
  (workspace = "split" /\ audioEvent.kind = "dragEnd") => ~isDragging

\* C21: with the media element present the play/pause toggle calls play()
\* when paused and pause() when playing and flips isPlaying, so isPlaying is
\* true exactly after an odd number of toggles and play() is never called
\* twice without a pause() in between.
C21_ToggleAlternates ==
  [][(audioEvent'.kind = "playPause" /\ audioRef) =>
       /\ isPlaying' = ~isPlaying
       /\ ~isPlaying => lastCall' = "play"
       /\ isPlaying => lastCall' = "pause"
       /\ lastCall' = "play" => lastCall # "play"
       /\ isPlaying' = oddPlayToggles'
    ]_vars

\* the third toggle, calling play() after a pause()
C21_Witness ==
  /\ audioEvent.kind = "playPause"
  /\ isPlaying
  /\ oddPlayToggles
  /\ lastCall = "play"
  /\ currentTime > 0

\* C22: while the media element is absent, the play/pause toggle, a click on
\* the track and a pointer release leave isPlaying, currentTime, isDragging
\* and the media position as they are.
C22_AbsentMediaNoOp ==
  [][(~audioRef /\ audioEvent'.kind \in {"playPause", "click", "dragEnd"}) =>
       UNCHANGED <<isPlaying, currentTime, isDragging, mediaTime, lastSeek,
                   mediaPlaying, lastCall>>
    ]_vars

\* a pointer release during a drag, after the element was taken away
C22_Witness ==
  /\ ~audioRef
  /\ audioEvent.kind = "dragEnd"
  /\ isDragging
  /\ listener.isDragging

\* C23: once the mount fetch has failed, by a network error, an unreadable
\* body or a non-success status, the collection and the selection are empty
\* and stay empty.
C23_FailedFetchLeavesEmpty ==
  fetchState \in {"failed", "refused"} =>
    (papers = << >> /\ selectedPapers = << >>)

\* C26: a click on the progress track while isDragging is true changes
\* neither currentTime nor the media position.
C26_ClickWhileDraggingIgnored ==
  [][(audioEvent'.kind = "click" /\ isDragging) =>
       UNCHANGED <<currentTime, mediaTime, lastSeek, dragWrites>>
    ]_vars

\* a click in the middle of the track of pages/DeepDive.tsx during a drag
C26_Witness ==
  /\ workspace = "single"
  /\ audioEvent = AudioEvent("click", 1)
  /\ isDragging
  /\ currentTime # ClickTime(1, duration)

\* C27: when the media reports its true duration, duration takes that value
\* and the fraction currentTime / duration of before the load is the fraction
\* after it; once reported, duration does not change again.
C27_MetadataKeepsFraction ==
  [][/\ audioEvent'.kind = "loadedMetadata" =>
          /\ duration' = mediaDuration'
          /\ currentTime' * duration = currentTime * duration'
     /\ metadataLoaded => duration' = duration
    ]_vars

\* C28: after any sequence of customize, close-modal and generate actions
\* the customize modal and the audio player are never both shown.
C28_ModalOrPlayer ==
  ~(showCustomizeModal /\ showAudioPlayer)

\* C30: in every reachable state isPlaying is true exactly when the media is
\* playing.
C30_IsPlayingAgreesWithMedia ==
  isPlaying = mediaPlaying

====
